---------------------------- MODULE Spec2Model ----------------------------
(***************************************************************************)
(* A model of Working_Implementation.py: the class THORChainProtobuf, its  *)
(* manual protobuf encoder (encode_varint and the message composers), the  *)
(* address decoder, the transaction pipeline create_thor_transaction and   *)
(* the broadcast client.                                                   *)
(*                                                                         *)
(* Representation of Python values:                                        *)
(*   bytes  a sequence of integers in 0..255                               *)
(*   str    a sequence of Unicode code points                              *)
(*   int    a little-endian sequence of bits with no leading zero bit      *)
(*          (<<>> is 0, <<1>> is 1, <<0,1>> is 2, ...): Python integers    *)
(*          are unbounded and the encoder is exercised up to 2^63 and      *)
(*          beyond, which the model checker's own integers cannot hold.    *)
(*          Small numbers (lengths, byte values) are ordinary naturals.    *)
(*   a call's outcome is a record [kind |-> "return", val |-> ...] or      *)
(*          [kind |-> "raise", exc |-> ..., reason |-> ...]                *)
(***************************************************************************)
EXTENDS Integers, Sequences, FiniteSets

VARIABLES
    pc,          \* position of the call in progress
    call,        \* the method called and its arguments
    ret,         \* the outcome of the call, once it has ended
    from_bytes,  \* create_thor_msgsend: local from_bytes
    to_bytes,    \* create_thor_msgsend: local to_bytes
    msg_send,    \* create_thor_transaction: local msg_send
    any_msg,     \* create_thor_transaction: local any_msg
    tx_body,     \* create_thor_transaction: local tx_body
    auth_info,   \* create_thor_transaction: local auth_info
    signature,   \* create_thor_transaction: local signature
    tx_raw,      \* create_thor_transaction: local tx_raw
    http,        \* broadcast_transaction: the requests.post calls made so far
    response     \* broadcast_transaction: what the network answered

vars == <<pc, call, ret, from_bytes, to_bytes, msg_send, any_msg, tx_body,
          auth_info, signature, tx_raw, http, response>>

locals == <<from_bytes, to_bytes, msg_send, any_msg, tx_body, auth_info,
            signature, tx_raw>>

net == <<http, response>>

\* A local that has not been assigned yet.
Unset == <<"unset">>

NoCall == [op |-> "none"]

NoRet == [kind |-> "none"]

Return(v) == [kind |-> "return", val |-> v]

Raise(e, r) == [kind |-> "raise", exc |-> e, reason |-> r]

InitIdle ==
    /\ pc = "idle"
    /\ call = NoCall
    /\ ret = NoRet
    /\ from_bytes = Unset
    /\ to_bytes = Unset
    /\ msg_send = Unset
    /\ any_msg = Unset
    /\ tx_body = Unset
    /\ auth_info = Unset
    /\ signature = Unset
    /\ tx_raw = Unset
    /\ http = <<>>
    /\ response = [kind |-> "none"]

(***************************************************************************)
(* Python integers as bit sequences.                                       *)
(***************************************************************************)

\* The int n as a bit sequence (len(x) and the literals of the code).
RECURSIVE NatToBits(_)
NatToBits(n) ==
    IF n = 0 THEN <<>> ELSE <<n % 2>> \o NatToBits(n \div 2)

\* The number a short bit sequence stands for.
RECURSIVE BitsToNat(_)
BitsToNat(b) ==
    IF b = <<>> THEN 0 ELSE Head(b) + 2 * BitsToNat(Tail(b))

\* int.bit_length()
bit_length(value) == Len(value)

\* value > 127: 127 is seven one-bits, so exactly the ints of more than
\* seven bits are greater.
GreaterThan127(value) == bit_length(value) > 7

\* value & 0x7F, a number in 0..127
And7F(value) ==
    BitsToNat(SubSeq(value, 1, IF Len(value) < 7 THEN Len(value) ELSE 7))

\* x | 0x80 for a number x in 0..255
Or80(x) == IF (x \div 128) % 2 = 1 THEN x ELSE x + 128

\* value >>= 7
ShiftRight7(value) == SubSeq(value, 8, Len(value))

\* struct.pack('<B', x): one unsigned byte
pack_B(x) == <<x>>

\* len(x) of a bytes or str value, as a Python int
len(x) == NatToBits(Len(x))

(***************************************************************************)
(* encode_varint                                                           *)
(***************************************************************************)

\* A faulty encoder: the loop test is value >= 127.
RECURSIVE encode_varint_ge127(_)
encode_varint_ge127(value) ==
    IF bit_length(value) > 7 \/ value = <<1, 1, 1, 1, 1, 1, 1>>
        THEN pack_B(Or80(And7F(value))) \o encode_varint_ge127(ShiftRight7(value))
        ELSE pack_B(And7F(value))

\* A faulty encoder: the value is shifted by 8 bits each round.
RECURSIVE encode_varint_shift8(_)
encode_varint_shift8(value) ==
    IF GreaterThan127(value)
        THEN pack_B(Or80(And7F(value)))
                 \o encode_varint_shift8(SubSeq(value, 9, Len(value)))
        ELSE pack_B(And7F(value))

RECURSIVE encode_varint(_)
encode_varint(value) ==
    IF GreaterThan127(value)
        THEN pack_B(Or80(And7F(value))) \o encode_varint(ShiftRight7(value))
        ELSE pack_B(And7F(value))


(***************************************************************************)
(* The integers the encoder is exercised on: every int below 2^SmallBits,  *)
(* and for each bit length up to MaxBits the largest int of that length,   *)
(* the smallest, and one with alternating bits.                            *)
(***************************************************************************)
SmallBits == 8

MaxBits == 63

BitSeqs(n) ==
    IF n = 0 THEN {<<>>} ELSE {b \in [1..n -> {0, 1}] : b[n] = 1}

AllOnes(n) == [i \in 1..n |-> 1]

PowerOfTwo(n) == [i \in 1..n |-> IF i = n THEN 1 ELSE 0]

Alternating(n) == [i \in 1..n |-> IF i = n THEN 1 ELSE i % 2]

Values ==
    UNION {BitSeqs(n) : n \in 0..SmallBits}
        \cup {AllOnes(n) : n \in 1..MaxBits}
        \cup {PowerOfTwo(n) : n \in 1..MaxBits}
        \cup {Alternating(n) : n \in 1..MaxBits}

\* A caller applies encode_varint to an int >= 0.
EncodeVarint ==
    /\ pc = "idle"
    /\ \E v \in Values :
        /\ call' = [op |-> "encode_varint", value |-> v]
        /\ ret' = Return(encode_varint(v))
    /\ pc' = "done"
    /\ UNCHANGED <<locals, net>>

NextVarint == EncodeVarint

SpecVarint == InitIdle /\ [][NextVarint]_vars

(***************************************************************************)
(* A reference decoder of base-128 little-endian varints, and a reference  *)
(* reading of ints, against which the encoder is checked.                  *)
(***************************************************************************)

\* The seven value bits of a byte, least significant first.
Low7(b) == [i \in 1..7 |-> (b \div (2 ^ (i - 1))) % 2]

\* The bits without their leading (most significant) zeros.
RECURSIVE StripZeros(_)
StripZeros(b) ==
    IF b = <<>> THEN <<>>
    ELSE IF b[Len(b)] = 1 THEN b
    ELSE StripZeros(SubSeq(b, 1, Len(b) - 1))

\* The int a whole byte string encodes: ok is FALSE unless the string is one
\* varint, every byte but the last with the continuation bit, and nothing after.
RECURSIVE RefDecodeVarint(_)
RefDecodeVarint(bs) ==
    IF bs = <<>> THEN [ok |-> FALSE, bits |-> <<>>]
    ELSE IF Head(bs) < 128
        THEN [ok |-> Tail(bs) = <<>>, bits |-> Low7(Head(bs))]
    ELSE LET r == RefDecodeVarint(Tail(bs))
         IN  [ok |-> r.ok, bits |-> Low7(Head(bs)) \o r.bits]

\* v <= n, computed on the number itself (n below 2^30).
ValueLeq(v, n) == Len(v) <= 30 /\ BitsToNat(v) <= n

VarintDone == pc = "done" /\ call.op = "encode_varint"

\* C1: for every unsigned v in [0, 2^63), decoding encode_varint(v) with the
\* reference base-128 little-endian decoder yields v again, and the encoding
\* is exactly one byte long if and only if v <= 127.
C1_RoundTrip ==
    VarintDone =>
        /\ ret.kind = "return"
        /\ RefDecodeVarint(ret.val).ok
        /\ StripZeros(RefDecodeVarint(ret.val).bits) = call.value
        /\ (Len(ret.val) = 1) <=> ValueLeq(call.value, 127)

\* The largest value below 2^63 has been encoded, in nine bytes.
C1_Witness ==
    /\ VarintDone
    /\ call.value = AllOnes(63)
    /\ Len(ret.val) = 9
    /\ StripZeros(RefDecodeVarint(ret.val).bits) = AllOnes(63)

\* C2: for every value >= 0 the encoding is canonical: its length is
\* ceil(bit_length(value)/7), at least 1 (value 0); every byte but the last
\* has the high bit set and the last has it clear; for value > 0 the last
\* byte is not zero.
C2_Canonical ==
    VarintDone =>
        LET n == Len(ret.val)
            bl == Len(call.value)
        IN  /\ n = (IF bl = 0 THEN 1 ELSE (bl + 6) \div 7)
            /\ \A i \in 1..(n - 1) : ret.val[i] \in 128..255
            /\ ret.val[n] \in 0..127
            /\ (call.value # <<>>) => ret.val[n] # 0

\* 128, the first value of two bytes, has been encoded as 0x80 0x01.
C2_Witness ==
    /\ VarintDone
    /\ call.value = PowerOfTwo(8)
    /\ ret.val = <<128, 1>>

(***************************************************************************)
(* thor_address_to_bytes                                                   *)
(***************************************************************************)

\* 'thor1' (line 74)
THOR1 == <<116, 104, 111, 114, 49>>

\* str.startswith
startswith(s, prefix) ==
    Len(s) >= Len(prefix) /\ SubSeq(s, 1, Len(prefix)) = prefix

\* s[n:]
SliceFrom(s, n) == SubSeq(s, n + 1, Len(s))

\* The characters bytes.fromhex skips: ASCII whitespace (tab, newline,
\* vertical tab, form feed, carriage return, space).
IsSpace(c) == c \in {9, 10, 11, 12, 13, 32}

\* The value of a hexadecimal digit, 16 for any other character.
DigitValue(c) ==
    IF c \in 48..57 THEN c - 48
    ELSE IF c \in 97..102 THEN c - 87
    ELSE IF c \in 65..70 THEN c - 55
    ELSE 16

\* bytes.fromhex(s): whitespace before a pair of digits and at the end is
\* skipped; then two hexadecimal digits, next to each other, make one byte;
\* anything else raises ValueError.
RECURSIVE fromhex(_)
fromhex(s) ==
    IF s = <<>> THEN Return(<<>>)
    ELSE IF IsSpace(Head(s)) THEN fromhex(Tail(s))
    ELSE IF Len(s) < 2 \/ DigitValue(s[1]) >= 16 \/ DigitValue(s[2]) >= 16
        THEN Raise("ValueError", "non-hexadecimal number found in fromhex() arg")
    ELSE LET rest == fromhex(SubSeq(s, 3, Len(s)))
         IN  IF rest.kind = "raise" THEN rest
             ELSE Return(<<16 * DigitValue(s[1]) + DigitValue(s[2])>> \o rest.val)

thor_address_to_bytes(bech32_addr) ==
    IF ~startswith(bech32_addr, THOR1)
        THEN Raise("ValueError", "Invalid THORChain address prefix")
    ELSE LET hex_data == SliceFrom(bech32_addr, 5)
         IN  IF Len(hex_data) # 40
                 THEN Raise("ValueError", "Invalid address length")
             ELSE IF fromhex(hex_data).kind = "raise"
                 THEN Raise("ValueError", "Invalid hex data in address")
             ELSE fromhex(hex_data)

(***************************************************************************)
(* The addresses tried: each prefix followed by a body of about 40         *)
(* characters, all 'a' but for at most two probe characters at its ends.   *)
(***************************************************************************)

\* The length of an address body around which the bodies tried vary.
BodyLen == 40

\* How far a body tried may be shorter or longer than BodyLen.
LenSlack == 1

\* the address used by main() (line 368), without its prefix
MainBody ==
    <<97, 51, 101, 98, 57, 100, 50, 99, 98, 101, 97, 53, 49, 56, 57, 54, 99, 51,
      51, 50, 48, 57, 102, 50, 98, 98, 53, 102, 102, 57, 55, 57, 97, 52, 52, 50,
      48, 49, 97, 50>>

\* 'thor1', 'cosm1', 'Thor1', 'thor', ' thor1'
Prefixes ==
    { THOR1,
      <<99, 111, 115, 109, 49>>,
      <<84, 104, 111, 114, 49>>,
      <<116, 104, 111, 114>>,
      <<32, 116, 104, 111, 114, 49>> }

\* 'a', '7', 'F', 'g', ' ', newline, e-acute
ProbeChars == {97, 55, 70, 103, 32, 10, 233}

ProbePositions(n) == {1, 2, n - 1, n} \cap (1..n)

Bodies(n) ==
    { [k \in 1..n |-> IF k = i THEN c ELSE IF k = j THEN d ELSE 97] :
          i \in ProbePositions(n), j \in ProbePositions(n),
          c \in ProbeChars, d \in ProbeChars }

Blank(n) == [k \in 1..n |-> 32]

AllBodies ==
    UNION {Bodies(n) : n \in (BodyLen - LenSlack)..(BodyLen + LenSlack)}
        \cup {MainBody, Blank(BodyLen), <<>>}

Addresses == {p \o b : p \in Prefixes, b \in AllBodies} \cup {<<>>}

\* A caller applies thor_address_to_bytes to a string.
ThorAddressToBytes ==
    /\ pc = "idle"
    /\ \E a \in Addresses :
        /\ call' = [op |-> "thor_address_to_bytes", bech32_addr |-> a]
        /\ ret' = thor_address_to_bytes(a)
    /\ pc' = "done"
    /\ UNCHANGED <<locals, net>>

NextAddress == ThorAddressToBytes

SpecAddress == InitIdle /\ [][NextAddress]_vars

\* The hexadecimal digits: 0-9, A-F, a-f.
HexDigits == (48..57) \cup (65..70) \cup (97..102)

\* An address as the contract wants it: 'thor1', then exactly 40 characters,
\* all hexadecimal digits.
WellFormedAddress(a) ==
    /\ Len(a) = 45
    /\ SubSeq(a, 1, 5) = THOR1
    /\ \A k \in 6..45 : a[k] \in HexDigits

AddressDone == pc = "done" /\ call.op = "thor_address_to_bytes"

\* C3: thor_address_to_bytes(a) succeeds exactly when a begins with 'thor1'
\* and the remainder is exactly 40 characters that are all hexadecimal
\* digits; every successful call returns exactly 20 bytes; every other input
\* (whitespace in the remainder included) fails with the address-format error.
C3_AddressContract ==
    AddressDone =>
        /\ (ret.kind = "return") <=> WellFormedAddress(call.bech32_addr)
        /\ (ret.kind = "return") => Len(ret.val) = 20
        /\ (ret.kind # "return") => (ret.kind = "raise" /\ ret.exc = "ValueError")

\* What the decoder does keep: a well-formed address is decoded to 20 bytes,
\* and a call either returns bytes or raises ValueError.
AddressDecoderKeeps ==
    AddressDone =>
        /\ WellFormedAddress(call.bech32_addr) =>
               (ret.kind = "return" /\ Len(ret.val) = 20)
        /\ ret.kind \in {"return", "raise"}
        /\ (ret.kind = "raise") => ret.exc = "ValueError"

(***************************************************************************)
(* str.encode('utf-8').  The strings of the model are text: sequences of   *)
(* Unicode scalar values (no lone surrogate code points).                  *)
(***************************************************************************)

\* The UTF-8 bytes of one code point.
utf8_char(c) ==
    IF c < 128 THEN <<c>>
    ELSE IF c < 2048 THEN <<192 + (c \div 64), 128 + (c % 64)>>
    ELSE IF c < 65536
        THEN <<224 + (c \div 4096), 128 + ((c \div 64) % 64), 128 + (c % 64)>>
    ELSE <<240 + (c \div 262144), 128 + ((c \div 4096) % 64),
           128 + ((c \div 64) % 64), 128 + (c % 64)>>

\* The bytes of the characters one after the other (the string is halved
\* rather than walked, which keeps the evaluation shallow).
RECURSIVE encode_utf8(_)
encode_utf8(s) ==
    IF s = <<>> THEN <<>>
    ELSE IF Len(s) = 1 THEN utf8_char(s[1])
    ELSE encode_utf8(SubSeq(s, 1, Len(s) \div 2))
             \o encode_utf8(SubSeq(s, (Len(s) \div 2) + 1, Len(s)))

(***************************************************************************)
(* The message composers.  0x0a = 10, 0x12 = 18, 0x1a = 26 are the tags of *)
(* the length-delimited fields 1, 2, 3; 0x10 = 16 and 0x18 = 24 the tags   *)
(* of the varint fields 2 and 3.                                           *)
(***************************************************************************)

\* lines 110-118 of create_thor_msgsend, the addresses decoded
msgsend_fields(from_b, to_b) ==
    LET from_field == pack_B(10) \o encode_varint(len(from_b)) \o from_b
        to_field == pack_B(18) \o encode_varint(len(to_b)) \o to_b
    IN  from_field \o to_field

\* A faulty composer: the length of the value is written as one plain byte.
create_any_message_len1(type_url, message_bytes) ==
    LET type_url_bytes == encode_utf8(type_url)
        type_url_field ==
            pack_B(10) \o encode_varint(len(type_url_bytes)) \o type_url_bytes
        value_field ==
            pack_B(18) \o pack_B(Len(message_bytes) % 256) \o message_bytes
    IN  type_url_field \o value_field

create_any_message(type_url, message_bytes) ==
    LET type_url_bytes == encode_utf8(type_url)
        type_url_field ==
            pack_B(10) \o encode_varint(len(type_url_bytes)) \o type_url_bytes
        value_field ==
            pack_B(18) \o encode_varint(len(message_bytes)) \o message_bytes
    IN  type_url_field \o value_field

\* The loop of create_tx_body over messages (lines 161-164).
RECURSIVE messages_field(_)
messages_field(messages) ==
    IF messages = <<>> THEN <<>>
    ELSE LET msg_bytes == Head(messages)
             msg_field ==
                 pack_B(10) \o encode_varint(len(msg_bytes)) \o msg_bytes
         IN  msg_field \o messages_field(Tail(messages))

\* A faulty composer: the memo's length prefix is its character count, and
\* an empty memo is left out.
create_tx_body_chars(messages, memo) ==
    LET memo_bytes == encode_utf8(memo)
        memo_field ==
            IF memo = <<>> THEN <<>>
            ELSE pack_B(18) \o encode_varint(len(memo)) \o memo_bytes
        timeout_field == pack_B(24) \o encode_varint(NatToBits(0))
    IN  messages_field(messages) \o memo_field \o timeout_field

create_tx_body(messages, memo) ==
    LET memo_bytes == encode_utf8(memo)
        memo_field ==
            pack_B(18) \o encode_varint(len(memo_bytes)) \o memo_bytes
        timeout_field == pack_B(24) \o encode_varint(NatToBits(0))
    IN  messages_field(messages) \o memo_field \o timeout_field

\* struct.pack('<Q', value): eight bytes, little-endian (the fixed-width
\* encoding the comments of the code warn against).
pack_Q(value) ==
    [i \in 1..8 |->
        BitsToNat([k \in 1..8 |->
            IF 8 * (i - 1) + k <= Len(value) THEN value[8 * (i - 1) + k] ELSE 0])]

\* A faulty composer: the gas limit is written fixed-width.
create_auth_info_fixed(sequence, gas_limit) ==
    LET signer_info == pack_B(24) \o encode_varint(sequence)
        fee == pack_B(16) \o pack_Q(gas_limit)
        signer_infos_field ==
            pack_B(10) \o encode_varint(len(signer_info)) \o signer_info
        fee_field == pack_B(18) \o encode_varint(len(fee)) \o fee
    IN  signer_infos_field \o fee_field

create_auth_info(sequence, gas_limit) ==
    LET signer_info == pack_B(24) \o encode_varint(sequence)
        fee == pack_B(16) \o encode_varint(gas_limit)
        signer_infos_field ==
            pack_B(10) \o encode_varint(len(signer_info)) \o signer_info
        fee_field == pack_B(18) \o encode_varint(len(fee)) \o fee
    IN  signer_infos_field \o fee_field

\* The loop of create_tx_raw over signatures (lines 243-246).
RECURSIVE signatures_field(_)
signatures_field(signatures) ==
    IF signatures = <<>> THEN <<>>
    ELSE LET sig == Head(signatures)
             sig_field == pack_B(26) \o encode_varint(len(sig)) \o sig
         IN  sig_field \o signatures_field(Tail(signatures))

\* A faulty composer: the signatures are merged into one field.
RECURSIVE Concat(_)
Concat(ss) == IF ss = <<>> THEN <<>> ELSE Head(ss) \o Concat(Tail(ss))

create_tx_raw_merged(tx_body_, auth_info_, signatures) ==
    LET body_field == pack_B(10) \o encode_varint(len(tx_body_)) \o tx_body_
        auth_field == pack_B(18) \o encode_varint(len(auth_info_)) \o auth_info_
    IN  body_field \o auth_field \o signatures_field(<<Concat(signatures)>>)

create_tx_raw(tx_body_, auth_info_, signatures) ==
    LET body_field == pack_B(10) \o encode_varint(len(tx_body_)) \o tx_body_
        auth_field == pack_B(18) \o encode_varint(len(auth_info_)) \o auth_info_
    IN  body_field \o auth_field \o signatures_field(signatures)

(***************************************************************************)
(* base64.b64encode(tx_raw).decode('utf-8')                                *)
(***************************************************************************)

\* The character of a 6-bit group: A-Z, a-z, 0-9, '+', '/'.
b64_char(i) ==
    IF i < 26 THEN 65 + i
    ELSE IF i < 52 THEN 71 + i
    ELSE IF i < 62 THEN i - 4
    ELSE IF i = 62 THEN 43
    ELSE 47

\* Three bytes make four characters of six bits each; a last group of one
\* or two bytes is filled with zero bits and padded with '=' (61).
b64encode(bs) ==
    LET byte(k) == IF k <= Len(bs) THEN bs[k] ELSE 0
        char(i) ==
            LET g == 3 * ((i - 1) \div 4)
                b1 == byte(g + 1)
                b2 == byte(g + 2)
                b3 == byte(g + 3)
            IN  CASE (i - 1) % 4 = 0 -> b64_char(b1 \div 4)
                  [] (i - 1) % 4 = 1 -> b64_char((b1 % 4) * 16 + (b2 \div 16))
                  [] (i - 1) % 4 = 2 ->
                         IF g + 2 > Len(bs) THEN 61
                         ELSE b64_char((b2 % 16) * 4 + (b3 \div 64))
                  [] (i - 1) % 4 = 3 ->
                         IF g + 3 > Len(bs) THEN 61 ELSE b64_char(b3 % 64)
    IN  [i \in 1..(4 * ((Len(bs) + 2) \div 3)) |-> char(i)]

\* bytes.decode('utf-8') of ASCII bytes: each byte below 128 is the code
\* point of one character.
decode_ascii(bs) == [i \in 1..Len(bs) |-> bs[i]]

(***************************************************************************)
(* The inputs of the composers.                                            *)
(***************************************************************************)

\* "/cosmos.bank.v1beta1.MsgSend", the type URL the code says not to use
COSMOS_TYPE_URL ==
    <<47, 99, 111, 115, 109, 111, 115, 46, 98, 97, 110, 107, 46, 118, 49, 98,
      101, 116, 97, 49, 46, 77, 115, 103, 83, 101, 110, 100>>

\* "/types.MsgSend" (line 276)
TYPE_URL == <<47, 116, 121, 112, 101, 115, 46, 77, 115, 103, 83, 101, 110, 100>>

\* The longest payload tried (one whose length needs a two-byte varint).
LongLen == 200

\* The most messages in a body and signatures in a transaction tried.
MaxMsgs == 2

MaxSigs == 2

\* n bytes of varied content
Blob(n) == [i \in 1..n |-> (i * 37) % 256]

Blobs == {Blob(n) : n \in {0, 1, 2, 127, 128, LongLen}}

\* 64 zero bytes (line 288)
ZeroSignature == [i \in 1..64 |-> 0]

Signatures == {ZeroSignature, <<>>, Blob(1), Blob(128)}

SeqsUpTo(S, n) == UNION {[1..k -> S] : k \in 0..n}

\* "", "hi", "TRADE+:", three characters of 2, 3 and 4 UTF-8 bytes, 64
\* two-byte characters (128 bytes), and LongLen ASCII characters
Memos ==
    { <<>>,
      <<104, 105>>,
      <<84, 82, 65, 68, 69, 43, 58>>,
      <<233, 8364, 128512>>,
      [i \in 1..64 |-> 233],
      [i \in 1..LongLen |-> 120] }

TypeUrls == {TYPE_URL, COSMOS_TYPE_URL, <<>>, [i \in 1..LongLen |-> 47]}

\* sequence numbers and gas limits: 0, 1, 127, 128, 200000, 2^31, 2^32 - 1,
\* 2^32 and the largest int of MaxBits bits
AuthValues ==
    {NatToBits(n) : n \in {0, 1, 127, 128, 200000}}
        \cup {PowerOfTwo(32), AllOnes(32), PowerOfTwo(33), AllOnes(MaxBits)}

\* Addresses for the message and the transaction: the one of main(), all
\* 'a', one with upper-case digits; then a wrong prefix, a short body, a
\* letter that is no digit, a body ending in two spaces, a blank body, "".
TxAddresses ==
    { THOR1 \o MainBody,
      THOR1 \o [k \in 1..40 |-> 97],
      THOR1 \o [k \in 1..40 |-> IF k % 2 = 0 THEN 70 ELSE 57],
      <<99, 111, 115, 109, 49>> \o MainBody,
      THOR1 \o [k \in 1..39 |-> 97],
      THOR1 \o [k \in 1..40 |-> IF k = 7 THEN 103 ELSE 97],
      THOR1 \o [k \in 1..40 |-> IF k > 38 THEN 32 ELSE 97],
      THOR1 \o Blank(40),
      <<>> }

(***************************************************************************)
(* Calls of the composers that take no address: one step each.             *)
(***************************************************************************)

CreateAnyMessage ==
    /\ pc = "idle"
    /\ \E u \in TypeUrls, m \in Blobs :
        /\ call' = [op |-> "create_any_message", type_url |-> u,
                    message_bytes |-> m]
        /\ ret' = Return(create_any_message(u, m))
    /\ pc' = "done"
    /\ UNCHANGED <<locals, net>>

CreateTxBody ==
    /\ pc = "idle"
    /\ \E ms \in SeqsUpTo(Blobs, MaxMsgs), memo \in Memos :
        /\ call' = [op |-> "create_tx_body", messages |-> ms, memo |-> memo]
        /\ ret' = Return(create_tx_body(ms, memo))
    /\ pc' = "done"
    /\ UNCHANGED <<locals, net>>

CreateAuthInfo ==
    /\ pc = "idle"
    /\ \E s \in AuthValues, g \in AuthValues :
        /\ call' = [op |-> "create_auth_info", sequence |-> s, gas_limit |-> g]
        /\ ret' = Return(create_auth_info(s, g))
    /\ pc' = "done"
    /\ UNCHANGED <<locals, net>>

CreateTxRaw ==
    /\ pc = "idle"
    /\ \E b \in Blobs, a \in Blobs, sigs \in SeqsUpTo(Signatures, MaxSigs) :
        /\ call' = [op |-> "create_tx_raw", tx_body |-> b, auth_info |-> a,
                    signatures |-> sigs]
        /\ ret' = Return(create_tx_raw(b, a, sigs))
    /\ pc' = "done"
    /\ UNCHANGED <<locals, net>>

(***************************************************************************)
(* create_thor_msgsend and create_thor_transaction, statement by           *)
(* statement.  create_thor_transaction calls create_thor_msgsend first     *)
(* (line 271) and catches nothing, so an exception raised there ends both. *)
(* The print calls between the statements write to standard output only    *)
(* and are left out.                                                       *)
(***************************************************************************)

CallCreateThorMsgsend ==
    /\ pc = "idle"
    /\ \E f \in TxAddresses, t \in TxAddresses :
        call' = [op |-> "create_thor_msgsend", from_addr |-> f, to_addr |-> t]
    /\ pc' = "msgsend_from"
    /\ UNCHANGED <<ret, locals, net>>

CallCreateThorTransaction ==
    /\ pc = "idle"
    /\ \E f \in TxAddresses, t \in TxAddresses, m \in Memos :
        call' = [op |-> "create_thor_transaction", from_addr |-> f,
                 to_addr |-> t, memo |-> m]
    /\ pc' = "msgsend_from"
    /\ UNCHANGED <<ret, locals, net>>

\* line 105: from_bytes = self.thor_address_to_bytes(from_addr)
DecodeFrom ==
    /\ pc = "msgsend_from"
    /\ LET r == thor_address_to_bytes(call.from_addr)
       IN  IF r.kind = "raise"
               THEN /\ ret' = r
                    /\ pc' = "raised"
                    /\ UNCHANGED from_bytes
               ELSE /\ from_bytes' = r.val
                    /\ pc' = "msgsend_to"
                    /\ UNCHANGED ret
    /\ UNCHANGED <<call, to_bytes, msg_send, any_msg, tx_body, auth_info,
                   signature, tx_raw, net>>

\* line 106: to_bytes = self.thor_address_to_bytes(to_addr)
DecodeTo ==
    /\ pc = "msgsend_to"
    /\ LET r == thor_address_to_bytes(call.to_addr)
       IN  IF r.kind = "raise"
               THEN /\ ret' = r
                    /\ pc' = "raised"
                    /\ UNCHANGED to_bytes
               ELSE /\ to_bytes' = r.val
                    /\ pc' = "msgsend_fields"
                    /\ UNCHANGED ret
    /\ UNCHANGED <<call, from_bytes, msg_send, any_msg, tx_body, auth_info,
                   signature, tx_raw, net>>

\* lines 110-118: the two fields are built and returned, to the caller of
\* create_thor_msgsend or into msg_send of create_thor_transaction
MsgsendFields ==
    /\ pc = "msgsend_fields"
    /\ IF call.op = "create_thor_msgsend"
           THEN /\ ret' = Return(msgsend_fields(from_bytes, to_bytes))
                /\ pc' = "done"
                /\ UNCHANGED msg_send
           ELSE /\ msg_send' = msgsend_fields(from_bytes, to_bytes)
                /\ pc' = "any"
                /\ UNCHANGED ret
    /\ UNCHANGED <<call, from_bytes, to_bytes, any_msg, tx_body, auth_info,
                   signature, tx_raw, net>>

\* line 276
WrapAny ==
    /\ pc = "any"
    /\ any_msg' = create_any_message(TYPE_URL, msg_send)
    /\ pc' = "body"
    /\ UNCHANGED <<call, ret, from_bytes, to_bytes, msg_send, tx_body,
                   auth_info, signature, tx_raw, net>>

\* line 280
BuildTxBody ==
    /\ pc = "body"
    /\ tx_body' = create_tx_body(<<any_msg>>, call.memo)
    /\ pc' = "auth"
    /\ UNCHANGED <<call, ret, from_bytes, to_bytes, msg_send, any_msg,
                   auth_info, signature, tx_raw, net>>

\* line 284: create_auth_info() with its defaults (line 176)
BuildAuthInfo ==
    /\ pc = "auth"
    /\ auth_info' = create_auth_info(NatToBits(0), NatToBits(200000))
    /\ pc' = "signature"
    /\ UNCHANGED <<call, ret, from_bytes, to_bytes, msg_send, any_msg,
                   tx_body, signature, tx_raw, net>>

\* line 288
DummySignature ==
    /\ pc = "signature"
    /\ signature' = ZeroSignature
    /\ pc' = "raw"
    /\ UNCHANGED <<call, ret, from_bytes, to_bytes, msg_send, any_msg,
                   tx_body, auth_info, tx_raw, net>>

\* line 292
BuildTxRaw ==
    /\ pc = "raw"
    /\ tx_raw' = create_tx_raw(tx_body, auth_info, <<signature>>)
    /\ pc' = "base64"
    /\ UNCHANGED <<call, ret, from_bytes, to_bytes, msg_send, any_msg,
                   tx_body, auth_info, signature, net>>

\* lines 296-299
Base64Encode ==
    /\ pc = "base64"
    /\ ret' = Return(decode_ascii(b64encode(tx_raw)))
    /\ pc' = "done"
    /\ UNCHANGED <<call, locals, net>>

NextEncoder ==
    \/ CreateAnyMessage
    \/ CreateTxBody
    \/ CreateAuthInfo
    \/ CreateTxRaw
    \/ CallCreateThorMsgsend
    \/ CallCreateThorTransaction
    \/ DecodeFrom
    \/ DecodeTo
    \/ MsgsendFields
    \/ WrapAny
    \/ BuildTxBody
    \/ BuildAuthInfo
    \/ DummySignature
    \/ BuildTxRaw
    \/ Base64Encode

SpecEncoder == InitIdle /\ [][NextEncoder]_vars

(***************************************************************************)
(* A reference protobuf reader: the fields of a message, each with its     *)
(* number, wire type, place and size, read the way a standard parser does. *)
(***************************************************************************)

\* The varint at the head of bs: its bits and the bytes it takes.
RECURSIVE RefReadVarint(_)
RefReadVarint(bs) ==
    IF bs = <<>> THEN [ok |-> FALSE, bits |-> <<>>, n |-> 0]
    ELSE IF Head(bs) < 128 THEN [ok |-> TRUE, bits |-> Low7(Head(bs)), n |-> 1]
    ELSE LET r == RefReadVarint(Tail(bs))
         IN  [ok |-> r.ok, bits |-> Low7(Head(bs)) \o r.bits, n |-> r.n + 1]

\* Whether the bits stand for a number small enough to be a tag or a length.
RefSmall(bits) == Len(StripZeros(bits)) <= 30

RefNat(bits) == BitsToNat(StripZeros(bits))

RefFail == [ok |-> FALSE, fields |-> <<>>]

\* The fields of bs from offset off on.  A field of wire type 0 has a value
\* (an int); one of wire type 2 a declared length (value) and a payload.
RECURSIVE RefParse(_, _)
RefParse(bs, off) ==
    IF off = Len(bs) THEN [ok |-> TRUE, fields |-> <<>>]
    ELSE
      LET tag == RefReadVarint(SubSeq(bs, off + 1, Len(bs)))
          v == RefReadVarint(SubSeq(bs, off + tag.n + 1, Len(bs)))
          at == off + tag.n + v.n
      IN  IF ~tag.ok \/ ~RefSmall(tag.bits) \/ ~v.ok THEN RefFail
          ELSE IF RefNat(tag.bits) \div 8 = 0 THEN RefFail
          ELSE IF RefNat(tag.bits) % 8 = 0
              THEN LET rest == RefParse(bs, at)
                   IN  [ok |-> rest.ok,
                        fields |->
                            <<[field |-> RefNat(tag.bits) \div 8, wire |-> 0,
                               start |-> off + 1, tag_len |-> tag.n,
                               len_len |-> v.n, value |-> StripZeros(v.bits),
                               payload |-> <<>>, size |-> tag.n + v.n]>>
                                \o rest.fields]
          ELSE IF RefNat(tag.bits) % 8 = 2
              THEN IF ~RefSmall(v.bits) THEN RefFail
                   ELSE IF at + RefNat(v.bits) > Len(bs) THEN RefFail
                   ELSE
                     LET n == RefNat(v.bits)
                         rest == RefParse(bs, at + n)
                     IN  [ok |-> rest.ok,
                          fields |->
                              <<[field |-> RefNat(tag.bits) \div 8, wire |-> 2,
                                 start |-> off + 1, tag_len |-> tag.n,
                                 len_len |-> v.n, value |-> StripZeros(v.bits),
                                 payload |-> SubSeq(bs, at + 1, at + n),
                                 size |-> tag.n + v.n + n]>>
                                  \o rest.fields]
          ELSE RefFail

Fields(bs) == RefParse(bs, 0).fields

Parses(bs) == RefParse(bs, 0).ok

\* The number of bytes of the varint of a length n.
RefVarintLen(n) == IF n < 128 THEN 1 ELSE IF n < 16384 THEN 2 ELSE 3

\* (f << 3) | 2
LengthDelimitedTag(f) == f * 8 + 2

\* Field fld of message bs is a length-delimited field as the wire format
\* wants it: one tag byte (f<<3)|2, the varint of the payload's length, the
\* payload, in 1 + len(varint(len(p))) + len(p) bytes.
WellFormedLD(bs, fld) ==
    /\ fld.wire = 2
    /\ fld.tag_len = 1
    /\ bs[fld.start] = LengthDelimitedTag(fld.field)
    /\ RefNat(fld.value) = Len(fld.payload)
    /\ fld.len_len = RefVarintLen(Len(fld.payload))
    /\ RefDecodeVarint(SubSeq(bs, fld.start + 1, fld.start + fld.len_len)).ok
    /\ fld.size = 1 + RefVarintLen(Len(fld.payload)) + Len(fld.payload)
    /\ SubSeq(bs, fld.start + 1 + fld.len_len, fld.start + fld.size - 1)
           = fld.payload

IsLD(fld) == fld.wire = 2

\* The length-delimited fields of bs.
LDFields(bs) == SelectSeq(Fields(bs), IsLD)

\* bs parses, and its length-delimited fields are well formed and carry the
\* field numbers nums, in this order.
LDShapeOf(bs, ld, nums) ==
    /\ Parses(bs)
    /\ Len(ld) = Len(nums)
    /\ \A i \in 1..Len(nums) :
        /\ ld[i].field = nums[i]
        /\ WellFormedLD(bs, ld[i])

(***************************************************************************)
(* A reference reading of UTF-8.                                           *)
(***************************************************************************)

\* The number of bytes UTF-8 gives a code point.
RefUtf8Width(c) ==
    IF c < 128 THEN 1 ELSE IF c < 2048 THEN 2 ELSE IF c < 65536 THEN 3 ELSE 4

\* The UTF-8 byte length of characters lo..hi of s.
RECURSIVE RefUtf8Len(_, _, _)
RefUtf8Len(s, lo, hi) ==
    IF lo > hi THEN 0
    ELSE IF lo = hi THEN RefUtf8Width(s[lo])
    ELSE RefUtf8Len(s, lo, (lo + hi) \div 2)
             + RefUtf8Len(s, ((lo + hi) \div 2) + 1, hi)

\* The code point the bytes of bs from position p on start with, -1 when
\* they start with no well-formed character.
RefUtf8CharAt(bs, p) ==
    LET b(k) == IF p + k <= Len(bs) THEN bs[p + k] ELSE 0
        cont(k) == b(k) \in 128..191
    IN  IF b(0) < 128 /\ p <= Len(bs) THEN b(0)
        ELSE IF b(0) \in 194..223 /\ cont(1)
            THEN (b(0) - 192) * 64 + (b(1) - 128)
        ELSE IF b(0) \in 224..239 /\ cont(1) /\ cont(2)
            THEN (b(0) - 224) * 4096 + (b(1) - 128) * 64 + (b(2) - 128)
        ELSE IF b(0) \in 240..244 /\ cont(1) /\ cont(2) /\ cont(3)
            THEN (b(0) - 240) * 262144 + (b(1) - 128) * 4096
                     + (b(2) - 128) * 64 + (b(3) - 128)
        ELSE 0 - 1

\* bs is the UTF-8 encoding of the string s: one character is its bytes;
\* a longer string is split where the bytes of its first half end.
RECURSIVE IsUtf8Of(_, _)
IsUtf8Of(bs, s) ==
    IF s = <<>> THEN bs = <<>>
    ELSE IF Len(s) = 1
        THEN Len(bs) = RefUtf8Width(s[1]) /\ RefUtf8CharAt(bs, 1) = s[1]
    ELSE LET h == Len(s) \div 2
             m == RefUtf8Len(s, 1, h)
         IN  /\ m <= Len(bs)
             /\ IsUtf8Of(SubSeq(bs, 1, m), SubSeq(s, 1, h))
             /\ IsUtf8Of(SubSeq(bs, m + 1, Len(bs)), SubSeq(s, h + 1, Len(s)))

(***************************************************************************)
(* The composers against the reference reader.                             *)
(***************************************************************************)

Returned(op) == pc = "done" /\ call.op = op /\ ret.kind = "return"

\* The field numbers of n repeated fields numbered f.
Repeat(f, n) == [i \in 1..n |-> f]

\* C4: every length-delimited field a composer (create_thor_msgsend,
\* create_any_message, create_tx_body, create_auth_info, create_tx_raw) emits
\* for field number f and payload p is the one tag byte (f<<3)|2, then
\* varint(len(p)), then p verbatim, 1 + len(varint(len(p))) + len(p) bytes
\* in all, the length prefix being the payload's length, for payloads of any
\* length (0 and 128 or more included).
C4_LengthDelimitedFields ==
    (pc = "done" /\ ret.kind = "return") =>
        LET ld == LDFields(ret.val)
        IN  CASE call.op = "create_thor_msgsend" ->
                    /\ LDShapeOf(ret.val, ld, <<1, 2>>)
                    /\ ld[1].payload = from_bytes
                    /\ ld[2].payload = to_bytes
              [] call.op = "create_any_message" ->
                    /\ LDShapeOf(ret.val, ld, <<1, 2>>)
                    /\ IsUtf8Of(ld[1].payload, call.type_url)
                    /\ ld[2].payload = call.message_bytes
              [] call.op = "create_tx_body" ->
                    /\ LDShapeOf(ret.val, ld,
                                 Repeat(1, Len(call.messages)) \o <<2>>)
                    /\ \A i \in 1..Len(call.messages) :
                           ld[i].payload = call.messages[i]
                    /\ IsUtf8Of(ld[Len(call.messages) + 1].payload, call.memo)
              [] call.op = "create_auth_info" ->
                    LDShapeOf(ret.val, ld, <<1, 2>>)
              [] call.op = "create_tx_raw" ->
                    /\ LDShapeOf(ret.val, ld,
                                 <<1, 2>> \o Repeat(3, Len(call.signatures)))
                    /\ ld[1].payload = call.tx_body
                    /\ ld[2].payload = call.auth_info
                    /\ \A i \in 1..Len(call.signatures) :
                           ld[2 + i].payload = call.signatures[i]
              [] OTHER -> TRUE

\* An Any envelope has been built around a value of 128 bytes, an empty type
\* URL before it: a zero-length field and one with a two-byte length prefix.
C4_Witness ==
    /\ Returned("create_any_message")
    /\ call.type_url = <<>>
    /\ Len(call.message_bytes) = 128
    /\ LDFields(ret.val)[1].size = 2
    /\ LDFields(ret.val)[2].len_len = 2
    /\ LDFields(ret.val)[2].size = 131

\* C5: create_tx_body(messages, memo) returns one length-delimited field 1
\* per message, in the caller's order (none for an empty list), then a
\* length-delimited field 2 with the UTF-8 bytes of the memo, its length
\* prefix the UTF-8 byte length and not the character count, emitted as
\* 0x12 0x00 when the memo is empty, then varint field 3 with the timeout
\* height (0).
C5_TxBodyLayout ==
    Returned("create_tx_body") =>
        LET n == Len(call.messages)
            f == Fields(ret.val)
        IN  /\ Parses(ret.val)
            /\ Len(f) = n + 2
            /\ \A i \in 1..n :
                /\ f[i].field = 1
                /\ f[i].wire = 2
                /\ f[i].payload = call.messages[i]
            /\ f[n + 1].field = 2
            /\ f[n + 1].wire = 2
            /\ IsUtf8Of(f[n + 1].payload, call.memo)
            /\ RefNat(f[n + 1].value) = RefUtf8Len(call.memo, 1, Len(call.memo))
            /\ (call.memo = <<>>) =>
                   SubSeq(ret.val, f[n + 1].start, f[n + 1].start + 1) = <<18, 0>>
            /\ f[n + 2].field = 3
            /\ f[n + 2].wire = 0
            /\ f[n + 2].value = NatToBits(0)
            /\ f[n + 2].start + f[n + 2].size - 1 = Len(ret.val)

\* A body of two messages and a memo of three characters in nine bytes.
C5_Witness ==
    /\ Returned("create_tx_body")
    /\ Len(call.messages) = 2
    /\ call.messages[1] # call.messages[2]
    /\ Len(call.memo) = 3
    /\ RefNat(Fields(ret.val)[3].value) = 9

\* C6: create_tx_raw(tx_body, auth_info, signatures) returns length-delimited
\* field 1 with tx_body, then length-delimited field 2 with auth_info, then
\* one length-delimited field 3 per signature in the order given: as many
\* field-3 entries as signatures (none for an empty list), none reordered,
\* merged or dropped.
C6_TxRawLayout ==
    Returned("create_tx_raw") =>
        LET n == Len(call.signatures)
            f == Fields(ret.val)
        IN  /\ Parses(ret.val)
            /\ Len(f) = n + 2
            /\ \A i \in 1..(n + 2) : f[i].wire = 2
            /\ f[1].field = 1
            /\ f[1].payload = call.tx_body
            /\ f[2].field = 2
            /\ f[2].payload = call.auth_info
            /\ \A i \in 1..n :
                /\ f[2 + i].field = 3
                /\ f[2 + i].payload = call.signatures[i]
            /\ Cardinality({i \in 1..Len(f) : f[i].field = 3}) = n

\* A raw transaction of two different signatures, the shorter one first.
C6_Witness ==
    /\ Returned("create_tx_raw")
    /\ call.signatures = <<Blob(1), ZeroSignature>>
    /\ Len(Fields(ret.val)) = 4
    /\ Fields(ret.val)[3].payload = Blob(1)
    /\ Fields(ret.val)[4].payload = ZeroSignature

\* The message is the one varint field numbered f, in canonical form (no
\* wider than its value needs, so never fixed-width), with value v.
IsVarintField(bs, tagbyte, f, v) ==
    /\ Parses(bs)
    /\ Fields(bs) = <<[field |-> f, wire |-> 0, start |-> 1, tag_len |-> 1,
                       len_len |-> Len(bs) - 1, value |-> v, payload |-> <<>>,
                       size |-> Len(bs)]>>
    /\ bs[1] = tagbyte
    /\ RefDecodeVarint(Tail(bs)).ok
    /\ StripZeros(RefDecodeVarint(Tail(bs)).bits) = v
    /\ Len(bs) = 1 + (IF v = <<>> THEN 1 ELSE (Len(v) + 6) \div 7)

\* C7: for every sequence >= 0 and gas_limit >= 0 (0 and 2^32 - 1 included)
\* create_auth_info returns length-delimited field 1 wrapping a signer info
\* that is tag 0x18 and varint(sequence), then length-delimited field 2
\* wrapping a fee that is tag 0x10 and varint(gas_limit); the integers are
\* varints, never fixed-width, and decode back to sequence and gas_limit.
C7_AuthInfoLayout ==
    Returned("create_auth_info") =>
        LET f == Fields(ret.val)
        IN  /\ Parses(ret.val)
            /\ Len(f) = 2
            /\ f[1].field = 1
            /\ f[1].wire = 2
            /\ IsVarintField(f[1].payload, 24, 3, call.sequence)
            /\ f[2].field = 2
            /\ f[2].wire = 2
            /\ IsVarintField(f[2].payload, 16, 2, call.gas_limit)

\* Auth info for gas limit 2^32 - 1 (five varint bytes) and sequence 0.
C7_Witness ==
    /\ Returned("create_auth_info")
    /\ call.gas_limit = AllOnes(32)
    /\ call.sequence = NatToBits(0)
    /\ Fields(ret.val)[2].payload = <<16, 255, 255, 255, 255, 15>>
    /\ Fields(ret.val)[1].payload = <<24, 0>>

(***************************************************************************)
(* create_thor_transaction against reference readers of base64, of the     *)
(* hexadecimal identifier and of the nested messages.                      *)
(***************************************************************************)

\* The six bits of a base64 character, -1 for a character outside the
\* alphabet.
RefB64Value(c) ==
    IF c \in 65..90 THEN c - 65
    ELSE IF c \in 97..122 THEN c - 71
    ELSE IF c \in 48..57 THEN c + 4
    ELSE IF c = 43 THEN 62
    ELSE IF c = 47 THEN 63
    ELSE 0 - 1

\* The number of '=' a base64 string ends with (at most two count).
RefB64Pad(s) ==
    IF Len(s) >= 2 /\ s[Len(s)] = 61 /\ s[Len(s) - 1] = 61 THEN 2
    ELSE IF Len(s) >= 1 /\ s[Len(s)] = 61 THEN 1
    ELSE 0

\* s is base64: whole groups of four characters of the alphabet, the last
\* one padded with at most two '='.
RefB64Valid(s) ==
    /\ Len(s) % 4 = 0
    /\ \A i \in 1..(Len(s) - RefB64Pad(s)) : RefB64Value(s[i]) >= 0

\* The bytes a base64 string stands for.
RefB64Decode(s) ==
    LET q(i) == IF RefB64Value(s[i]) < 0 THEN 0 ELSE RefB64Value(s[i])
        byte(j) ==
            LET g == 4 * ((j - 1) \div 3)
            IN  CASE (j - 1) % 3 = 0 -> q(g + 1) * 4 + (q(g + 2) \div 16)
                  [] (j - 1) % 3 = 1 ->
                         (q(g + 2) % 16) * 16 + (q(g + 3) \div 4)
                  [] (j - 1) % 3 = 2 -> (q(g + 3) % 4) * 64 + q(g + 4)
    IN  [j \in 1..(3 * (Len(s) \div 4) - RefB64Pad(s)) |-> byte(j)]

RefHexValue(c) ==
    IF c \in 48..57 THEN c - 48
    ELSE IF c \in 65..70 THEN c - 55
    ELSE c - 87

\* The 20 bytes the 40 hexadecimal digits of a well-formed address spell.
RefIdentifier(a) ==
    [i \in 1..20 |-> 16 * RefHexValue(a[4 + 2 * i]) + RefHexValue(a[5 + 2 * i])]

TxCall == call.op = "create_thor_transaction"

WellFormedPair ==
    WellFormedAddress(call.from_addr) /\ WellFormedAddress(call.to_addr)

\* A length-delimited field numbered f.
IsLDField(fld, f) == fld.field = f /\ fld.wire = 2

\* The decoded transaction: body with one Any envelope of type URL
\* "/types.MsgSend" around a Send-message of the two identifiers, the memo,
\* timeout 0; auth info of one signer info with sequence 0 and one fee with
\* gas limit 200000; one signature of 64 zero bytes.
DecodedTransactionIsRight(raw) ==
    LET r == Fields(raw)
        body == Fields(r[1].payload)
        any == Fields(body[1].payload)
        send == Fields(any[2].payload)
        auth == Fields(r[2].payload)
    IN  /\ Parses(raw)
        /\ Len(r) = 3
        /\ IsLDField(r[1], 1)
        /\ IsLDField(r[2], 2)
        /\ IsLDField(r[3], 3)
        /\ r[3].payload = [i \in 1..64 |-> 0]
        /\ Parses(r[1].payload)
        /\ Len(body) = 3
        /\ IsLDField(body[1], 1)
        /\ IsLDField(body[2], 2)
        /\ IsUtf8Of(body[2].payload, call.memo)
        /\ body[3].field = 3
        /\ body[3].wire = 0
        /\ body[3].value = NatToBits(0)
        /\ Parses(body[1].payload)
        /\ Len(any) = 2
        /\ IsLDField(any[1], 1)
        /\ any[1].payload =
               <<47, 116, 121, 112, 101, 115, 46, 77, 115, 103, 83, 101, 110, 100>>
        /\ IsLDField(any[2], 2)
        /\ Parses(any[2].payload)
        /\ Len(send) = 2
        /\ IsLDField(send[1], 1)
        /\ send[1].payload = RefIdentifier(call.from_addr)
        /\ IsLDField(send[2], 2)
        /\ send[2].payload = RefIdentifier(call.to_addr)
        /\ Parses(r[2].payload)
        /\ Len(auth) = 2
        /\ IsLDField(auth[1], 1)
        /\ IsVarintField(auth[1].payload, 24, 3, NatToBits(0))
        /\ IsLDField(auth[2], 2)
        /\ IsVarintField(auth[2].payload, 16, 2, NatToBits(200000))

\* C8: for every pair of well-formed addresses and every memo
\* create_thor_transaction returns the base64 encoding of a raw transaction
\* built bottom-up (Send-message, Any, body, auth info, raw transaction): its
\* body holds exactly one Any envelope of type URL "/types.MsgSend" around a
\* Send-message with the two 20-byte identifiers in fields 1 and 2, its auth
\* info exactly one signer info with sequence 0 and one fee with gas limit
\* 200000, and it carries exactly one signature of 64 zero bytes.
C8_Transaction ==
    (TxCall /\ WellFormedPair) =>
        /\ pc # "raised"
        /\ (any_msg # Unset) => (msg_send # Unset)
        /\ (tx_body # Unset) => (any_msg # Unset)
        /\ (auth_info # Unset) => (tx_body # Unset)
        /\ (tx_raw # Unset) => (auth_info # Unset /\ signature # Unset)
        /\ (pc = "done") =>
            /\ ret.kind = "return"
            /\ RefB64Valid(ret.val)
            /\ RefB64Decode(ret.val) = tx_raw
            /\ Fields(tx_raw)[1].payload = tx_body
            /\ Fields(tx_raw)[2].payload = auth_info
            /\ Fields(tx_body)[1].payload = any_msg
            /\ Fields(any_msg)[2].payload = msg_send
            /\ DecodedTransactionIsRight(RefB64Decode(ret.val))

\* The transaction of main()'s address to itself with an empty memo has been
\* returned.
C8_Witness ==
    /\ TxCall
    /\ pc = "done"
    /\ call.from_addr = THOR1 \o MainBody
    /\ call.to_addr = THOR1 \o MainBody
    /\ call.memo = <<>>
    /\ ret.kind = "return"
    /\ Len(RefB64Decode(ret.val)) = Len(tx_raw)
    /\ Fields(RefB64Decode(ret.val))[3].payload = [i \in 1..64 |-> 0]

\* C9: if the from or the to address is malformed, create_thor_msgsend and
\* create_thor_transaction fail with the address-format error before any
\* message byte is constructed: both addresses are decoded before the first
\* field is written, the error reaches the caller unchanged, and no byte
\* sequence (Send-message, Any, body, raw transaction, base64 string) is
\* returned.
C9_FailFast ==
    (/\ call.op \in {"create_thor_msgsend", "create_thor_transaction"}
     /\ ~WellFormedPair) =>
        /\ pc \in {"msgsend_from", "msgsend_to", "raised"}
        /\ msg_send = Unset
        /\ any_msg = Unset
        /\ tx_body = Unset
        /\ auth_info = Unset
        /\ tx_raw = Unset
        /\ ret.kind # "return"
        /\ (pc = "raised") => (ret.kind = "raise" /\ ret.exc = "ValueError")

\* What holds of the code: an address the decoder rejects ends the call
\* before any field is written, and nothing is returned.
FailFastOnRejectedAddress ==
    (/\ call.op \in {"create_thor_msgsend", "create_thor_transaction"}
     /\ \/ thor_address_to_bytes(call.from_addr).kind = "raise"
        \/ thor_address_to_bytes(call.to_addr).kind = "raise") =>
        /\ pc \in {"msgsend_from", "msgsend_to", "raised"}
        /\ msg_send = Unset
        /\ any_msg = Unset
        /\ tx_body = Unset
        /\ auth_info = Unset
        /\ tx_raw = Unset
        /\ ret.kind # "return"

(***************************************************************************)
(* broadcast_transaction.  The network is the environment: requests.post   *)
(* either returns a response (any status, any body) or raises (a timeout   *)
(* after the 30 seconds given, a connection error, ...).                   *)
(***************************************************************************)

\* timeout=30 (line 332)
Timeout == 30

\* the default rpc_url (line 301) and another endpoint
RpcUrls == {"https://stagenet-rpc.ninerealms.com", "http://localhost:26657"}

\* encoded transactions handed to the client
EncodedTxs == {"", "CkIKQA==", "not base64"}

StatusCodes == {200, 201, 204, 301, 400, 404, 429, 500, 502, 503}

\* Response bodies: JSON-RPC results and errors, JSON that is no object,
\* and three bodies that are no JSON.
BodyTexts ==
    { "{\"result\": {\"code\": 0, \"log\": \"\", \"hash\": \"AB\"}}",
      "{\"result\": {\"code\": 5, \"log\": \"insufficient funds\"}}",
      "{\"error\": {\"code\": -32603, \"message\": \"tx decode\"}}",
      "[1, 2]",
      "",
      "<html>502 Bad Gateway</html>",
      "{\"result\": " }

\* What requests.post can raise.
TransportErrors == {"ReadTimeout", "ConnectTimeout", "ConnectionError", "SSLError"}

\* response.json(): the parsed value, or JSONDecodeError for a body that is
\* no JSON.
json(text) ==
    CASE text = "{\"result\": {\"code\": 0, \"log\": \"\", \"hash\": \"AB\"}}" ->
             Return([result |-> [code |-> 0, log |-> "", hash |-> "AB"]])
      [] text = "{\"result\": {\"code\": 5, \"log\": \"insufficient funds\"}}" ->
             Return([result |-> [code |-> 5, log |-> "insufficient funds"]])
      [] text = "{\"error\": {\"code\": -32603, \"message\": \"tx decode\"}}" ->
             Return([error |-> [code |-> 0 - 32603, message |-> "tx decode"]])
      [] text = "[1, 2]" -> Return(<<1, 2>>)
      [] OTHER -> Raise("JSONDecodeError", text)

\* lines 315-322
request_data(encoded_tx) ==
    [jsonrpc |-> "2.0", id |-> 1, method |-> "broadcast_tx_sync",
     params |-> [tx |-> encoded_tx]]

CallBroadcastTransaction ==
    /\ pc = "idle"
    /\ \E e \in EncodedTxs, u \in RpcUrls :
        call' = [op |-> "broadcast_transaction", encoded_tx |-> e, rpc_url |-> u]
    /\ pc' = "post"
    /\ UNCHANGED <<ret, locals, net>>

\* line 332: the request is sent
Post ==
    /\ pc = "post"
    /\ http' = Append(http, [url |-> call.rpc_url,
                             json |-> request_data(call.encoded_tx),
                             timeout |-> Timeout])
    /\ pc' = "await"
    /\ UNCHANGED <<call, ret, locals, response>>

\* requests.post returns a response
Respond ==
    /\ pc = "await"
    /\ \E s \in StatusCodes, b \in BodyTexts :
        response' = [kind |-> "response", status_code |-> s, text |-> b,
                     exc |-> "none"]
    /\ pc' = "status"
    /\ UNCHANGED <<call, ret, locals, http>>

\* requests.post raises
PostRaises ==
    /\ pc = "await"
    /\ \E e \in TransportErrors :
        response' = [kind |-> "exception", status_code |-> 0, text |-> "",
                     exc |-> e]
    /\ pc' = "except"
    /\ UNCHANGED <<call, ret, locals, http>>

\* lines 334-340
CheckStatus ==
    /\ pc = "status"
    /\ IF response.status_code = 200
           THEN /\ pc' = "json"
                /\ UNCHANGED ret
           ELSE /\ ret' = Return([error |-> <<"HTTP", response.status_code>>,
                                  message |-> response.text])
                /\ pc' = "done"
    /\ UNCHANGED <<call, locals, net>>

\* A faulty client: the exception of response.json() is not caught.
ResponseJsonUncaught ==
    /\ pc = "json"
    /\ IF json(response.text).kind = "raise"
           THEN /\ ret' = json(response.text)
                /\ pc' = "raised"
           ELSE /\ ret' = json(response.text)
                /\ pc' = "done"
    /\ UNCHANGED <<call, locals, net>>

\* line 335: return response.json(), inside the try
ResponseJson ==
    /\ pc = "json"
    /\ IF json(response.text).kind = "raise"
           THEN /\ response' = [response EXCEPT !.exc = json(response.text).exc]
                /\ pc' = "except"
                /\ UNCHANGED <<ret, http>>
           ELSE /\ ret' = json(response.text)
                /\ pc' = "done"
                /\ UNCHANGED net
    /\ UNCHANGED <<call, locals>>

\* lines 342-346: except Exception as e
ExceptException ==
    /\ pc = "except"
    /\ ret' = Return([error |-> "Request failed", message |-> response.exc])
    /\ pc' = "done"
    /\ UNCHANGED <<call, locals, net>>

NextBroadcast ==
    \/ CallBroadcastTransaction
    \/ Post
    \/ Respond
    \/ PostRaises
    \/ CheckStatus
    \/ ResponseJson
    \/ ExceptException

SpecBroadcast == InitIdle /\ [][NextBroadcast]_vars

BroadcastCall == call.op = "broadcast_transaction"

\* A generic error dictionary: keys "error" and "message".
IsErrorDict(v) == DOMAIN v = {"error", "message"}

\* One request, with its timeout, once the call has passed line 332; none
\* before; never a second one.
OneRequest ==
    /\ Len(http) <= 1
    /\ (pc \in {"idle", "post"}) <=> (http = <<>>)
    /\ \A i \in 1..Len(http) :
        /\ http[i].timeout = 30
        /\ http[i].url = call.rpc_url
        /\ http[i].json.params.tx = call.encoded_tx

\* The call never ends by raising, and it goes on until it has returned.
AlwaysReturns ==
    /\ pc # "raised"
    /\ (pc = "done") => ret.kind = "return"
    /\ (pc # "done") => ENABLED NextBroadcast

\* C10: each call to broadcast_transaction issues exactly one HTTP request
\* with an explicit timeout and never retries, and it always ends by
\* returning a value, never by raising: the parsed JSON body on a successful
\* (2xx) response, a generic error dictionary (keys "error" and "message")
\* for every non-2xx status, every transport exception or timeout and every
\* malformed-JSON body.
C10_BroadcastAsClaimed ==
    BroadcastCall =>
        /\ OneRequest
        /\ AlwaysReturns
        /\ (pc = "done" /\ response.kind = "exception") => IsErrorDict(ret.val)
        /\ (pc = "done" /\ response.kind = "response") =>
               IF response.status_code \notin 200..299
                   THEN IsErrorDict(ret.val)
               ELSE IF json(response.text).kind = "raise"
                   THEN IsErrorDict(ret.val)
               ELSE ret.val = json(response.text).val

\* C10, amended: as claimed, the successful responses being those of status
\* exactly 200: every other status, the other 2xx included, gives the error
\* dictionary.
C10_Broadcast ==
    BroadcastCall =>
        /\ OneRequest
        /\ AlwaysReturns
        /\ (pc = "done" /\ response.kind = "exception") => IsErrorDict(ret.val)
        /\ (pc = "done" /\ response.kind = "response") =>
               IF response.status_code # 200
                   THEN IsErrorDict(ret.val)
               ELSE IF json(response.text).kind = "raise"
                   THEN IsErrorDict(ret.val)
               ELSE ret.val = json(response.text).val

\* A 201 response with a JSON body has been answered with the error
\* dictionary, after one request.
C10_Witness ==
    /\ BroadcastCall
    /\ pc = "done"
    /\ response.kind = "response"
    /\ response.status_code = 201
    /\ json(response.text).kind = "return"
    /\ ret = Return([error |-> <<"HTTP", 201>>, message |-> response.text])
    /\ Len(http) = 1
=============================================================================
